---- MODULE Spec2Model ----
(***************************************************************************)
(* A model of OsmService (src/modules/services/OsmService.js): the tile    *)
(* cache, the request bookkeeping of loadFromAPI and _wrapcb, the          *)
(* changeset life cycle and the note POSTs, run on the browser's event     *)
(* loop.  One action is one task of the event loop: a call of a public     *)
(* method, the arrival of a response (with every callback it runs), an     *)
(* idle callback, a timer.                                                 *)
(* And a model of the render loop of PixiRenderer                          *)
(* (src/modules/pixi/PixiRenderer.js): one action is one tick of the       *)
(* ticker or one call of a public method.                                  *)
(***************************************************************************)
EXTENDS Integers, Sequences, FiniteSets, TLC

\* ---------------------------------------------------------------- bounds
NumTiles    == 2    \* tile ids the tiler can return
NumEntities == 2    \* OSM entity ids a response can contain
MaxPayload  == 2    \* elements in one response
MaxReq      == 2    \* fetches that can be pending at once
MaxConn     == 1    \* resetAsync calls
NumNotes    == 1    \* note ids
NumIDs      == 1    \* changeset ids the server can assign
NumSends    == 1    \* sendChangeset calls

TickMS      == 125  \* milliseconds between two ticks, or half of that
MaxTicks    == 8    \* ticks of TickMS until the clock of the model stops
MaxFrame    == 3    \* DRAW passes
MaxEases    == 2    \* promises setTransformAsync returns
MaxX        == 12   \* the transforms lie in 0 .. MaxX
Mantissa    == 2    \* significant bits of a floating-point number

\* ------------------------------------------------------ program constants
MaxToLoad == 50     \* loadTileAtLoc backs off above this many queued tiles
THROTTLE  == 250    \* milliseconds of throttled rendering

Tiles      == 1..NumTiles
Entities   == 1..NumEntities
ReqIds     == 1..MaxReq
Notes      == 1..NumNotes
ChangesetIDs == 1..NumIDs
\* the id of a changeset of the caller: one the server assigned, or the local
\* id of a changeset that was never created on the server
LocalID   == NumIDs + 1
CallerIDs == ChangesetIDs \cup {LocalID}
SendIds    == 1..NumSends

\* HTTP status of a response; 200 is response.ok, the others raise FetchError
Statuses == {200, 400, 401, 403, 429, 509, 500}

VARIABLES
  connectionID,   \* this._connectionID
  authed,         \* this._oauth.authenticated()
  off,            \* this._off
  tileCache,      \* this._tileCache: toLoad, loaded, inflight, seen
  oldInflight,    \* keys of `inflight` in the tile cache objects of earlier sessions
  noteCache,      \* this._noteCache: inflightPost
  changeset,      \* this._changeset: inflight, openChangesetID
  session,        \* _rateLimitError, _cachedApiStatus, _userDetails, _userChangesets
  reqs,           \* the fetches that are pending, and the parses that are deferred
  sends,          \* the sendChangeset calls: position in the chain, callback count
  throttled,      \* a call of throttledReloadApiStatus is waiting for its timer
  spinner,        \* the last of the events 'loading' / 'loaded' that was emitted
  lastCb,         \* the callback the last step ran, or the re-issue it made
  emitted,        \* the 'loading', 'loaded' and 'authchange' events the last step emitted
  delivered,      \* per entity, in how many results.data it was delivered this session
  blockedTiles,   \* the tiles all of whose corners the location system blocks
  \* PixiRenderer
  frame,            \* this._frame
  timeToNextRender, \* this._timeToNextRender (any negative value is kept as -1)
  appPending,       \* this._appPending
  drawPending,      \* this._drawPending
  texturesLoaded,   \* this.textures.loaded
  transformEase,    \* this._transformEase, <<>> for null
  projection,       \* this.context.projection.transform(), one of x, y, k
  transformDraw,    \* this._transformDraw, <<>> for null
  isTransformed,    \* this._isTransformed
  now,              \* window.performance.now()
  promises,         \* the promises setTransformAsync returned
  passes            \* the passes (APP, DRAW) the last step ran

vars == <<connectionID, authed, off, tileCache, oldInflight, noteCache, changeset,
          session, reqs, sends, throttled, spinner, lastCb, emitted, delivered,
          blockedTiles, frame, timeToNextRender, appPending, drawPending,
          texturesLoaded, transformEase, projection, transformDraw, isTransformed,
          now, promises, passes>>

\* the fields of the renderer
rvars == <<frame, timeToNextRender, appPending, drawPending, texturesLoaded,
           transformEase, projection, transformDraw, isTransformed, now, promises,
           passes>>

\* the fields of the OSM service
ovars == <<connectionID, authed, off, tileCache, oldInflight, noteCache, changeset,
           session, reqs, sends, throttled, spinner, lastCb, emitted, delivered,
           blockedTiles>>

NoReq == [kind |-> "none", key |-> 0, cid |-> 0, phase |-> "none", abortable |-> FALSE,
          oauth |-> FALSE, payload |-> <<>>, send |-> 0]
NoCb   == [op |-> "none", key |-> 0, status |-> 0, stale |-> FALSE, sync |-> FALSE,
           data |-> <<>>, seenIDs |-> {}]

\* ----------------------------------------------------------------- state
\* The handlers are written as operators from a state record to a state
\* record, so that a handler can call another one as the code does.
St == [connectionID |-> connectionID, authed |-> authed, off |-> off,
       tileCache |-> tileCache, oldInflight |-> oldInflight, noteCache |-> noteCache,
       changeset |-> changeset, session |-> session, reqs |-> reqs, sends |-> sends,
       throttled |-> throttled, spinner |-> spinner, lastCb |-> NoCb, emitted |-> <<>>,
       delivered |-> delivered, overflow |-> FALSE, sync |-> FALSE]

\* the state in which a caller calls a method of the service: a callback that
\* runs before the method returns is recorded as synchronous
Call == [St EXCEPT !.sync = TRUE]

\* The step to state `st`.  A handler that needs more pending fetches than
\* MaxReq sets `overflow`, and such a step is left out of the model.
Commit(st) ==
  /\ ~st.overflow
  /\ connectionID' = st.connectionID
  /\ authed' = st.authed
  /\ off' = st.off
  /\ tileCache' = st.tileCache
  /\ oldInflight' = st.oldInflight
  /\ noteCache' = st.noteCache
  /\ changeset' = st.changeset
  /\ session' = st.session
  /\ reqs' = st.reqs
  /\ sends' = st.sends
  /\ throttled' = st.throttled
  /\ spinner' = st.spinner
  /\ lastCb' = st.lastCb
  /\ emitted' = st.emitted
  /\ delivered' = st.delivered
  /\ UNCHANGED blockedTiles
  /\ UNCHANGED rvars


EmptyTileCache == [toLoad |-> {}, loaded |-> {}, inflight |-> [t \in Tiles |-> 0], seen |-> {}]
EmptyNoteCache == [inflightPost |-> [n \in Notes |-> 0]]
EmptyChangeset == [inflight |-> 0, openChangesetID |-> 0]
EmptySession   == [rateLimitError |-> 0, cachedApiStatus |-> "undefined",
                   userDetails |-> FALSE, userChangesets |-> FALSE]
NoSend == [phase |-> "idle", cid |-> 0, calls |-> 0, status |-> 0]

\* the renderer after its constructor, PixiRenderer.js lines 48-149
InitRenderer ==
  /\ frame = 0
  /\ timeToNextRender = 0
  /\ appPending = FALSE
  /\ drawPending = FALSE
  /\ texturesLoaded = FALSE
  /\ transformEase = <<>>
  /\ projection = 0
  /\ transformDraw = <<>>
  /\ isTransformed = FALSE
  /\ now = 0
  /\ promises = [p \in 1..MaxEases |-> [state |-> "none", value |-> 0]]
  /\ passes = <<>>

\* the state after the constructor, lines 31-89, with `blocks` the blocked tiles
InitWith(blocks) ==
  /\ InitRenderer
  /\ connectionID = 0
  /\ authed \in BOOLEAN
  /\ off = FALSE
  /\ tileCache = EmptyTileCache
  /\ oldInflight = [c \in 0..MaxConn |-> {}]
  /\ noteCache = EmptyNoteCache
  /\ changeset = EmptyChangeset
  /\ session = EmptySession
  /\ reqs = [r \in ReqIds |-> NoReq]
  /\ sends = [s \in SendIds |-> NoSend]
  /\ throttled = FALSE
  /\ spinner = "none"
  /\ lastCb = NoCb
  /\ emitted = <<>>
  /\ delivered = [e \in Entities |-> 0]
  /\ blockedTiles = blocks

\* the state after the constructor, where no tile is blocked
Init == InitWith({})

\* the same, where the location system blocks any set of the tiles
InitTiles == \E blocks \in SUBSET Tiles : InitWith(blocks)

\* -------------------------------------------------------------- helpers
Free(st) == {r \in ReqIds : st.reqs[r].kind = "none"}

\* new AbortController() + fetch(): the lowest free slot holds the new fetch,
\* made with this._oauth.fetch when authenticated
Fetch(st, kind, key, send) ==
  IF Free(st) = {} THEN [st EXCEPT !.overflow = TRUE]
  ELSE LET r == CHOOSE x \in Free(st) : \A y \in Free(st) : x <= y
       IN [st EXCEPT !.reqs[r] = [kind |-> kind, key |-> key, cid |-> st.connectionID,
                                  phase |-> "net", abortable |-> TRUE,
                                  oauth |-> st.authed, payload |-> <<>>, send |-> send]]

\* the controller Fetch makes in state st: the lowest slot that is free
NewController(st) == CHOOSE x \in Free(st) : \A y \in Free(st) : x <= y

\* this.emit(ev), for the events the model follows
emit(st, ev) ==
  IF ev \in {"loading", "loaded"}
  THEN [st EXCEPT !.spinner = ev, !.emitted = Append(@, ev)]
  ELSE IF ev = "authchange" THEN [st EXCEPT !.emitted = Append(@, ev)]
  ELSE st

\* a callback of the service's caller runs: lastCb is what the callback of the
\* last step was given (NoCb when the step ran none)
Callback(st, op, key, status, stale, data, seenIDs) ==
  [st EXCEPT !.lastCb = [op |-> op, key |-> key, status |-> status, stale |-> stale,
                         sync |-> st.sync, data |-> data, seenIDs |-> seenIDs]]

\* controller.abort(): a fetch still waiting for its response is rejected with
\* AbortError; a fetch whose response was read, or whose request was re-issued
\* under another controller, is not affected
_abortRequest(st, c) ==
  IF c = 0 \/ st.reqs[c].phase # "net" \/ ~st.reqs[c].abortable THEN st
  ELSE IF st.reqs[c].kind \in {"create", "upload", "close", "npost"}
       THEN [st EXCEPT !.reqs[c].phase = "aborted"]   \* their catch handler runs later
       ELSE [st EXCEPT !.reqs[c] = NoReq]             \* loadFromAPI's catch does nothing

_hasInflightRequests(cache) == \E t \in Tiles : cache.inflight[t] # 0

\* ------------------------------------------------------- authentication
\* logout(), lines 1048-1054: forgets the user and the token
logout(st) ==
  emit([st EXCEPT !.session.userChangesets = FALSE, !.session.userDetails = FALSE,
                  !.authed = FALSE], "authchange")

\* throttledReloadApiStatus(): lodash's throttle runs reloadApiStatus at once or
\* when its timer fires; the action ReloadApiStatus is that run
throttledReloadApiStatus(st) == [st EXCEPT !.throttled = TRUE]

IsAuthError(status) == status \in {400, 401, 403}
IsRateError(status) == status \in {509, 429}

\* ------------------------------------------------------------ tile cache
\* gotTile, the callback loadTile gives to loadFromAPI.  `cache` is the object
\* loadTile captured: this._tileCache while the session of the request lasts,
\* the abandoned object of that session afterwards.
gotTile(st, q, err, data, seenIDs) ==
  LET tile  == q.key
      stale == q.cid # st.connectionID
      s1 == IF stale
            THEN [st EXCEPT !.oldInflight[q.cid] = @ \ {tile}]
            ELSE [st EXCEPT !.tileCache.inflight[tile] = 0]
      s2 == IF err = 0 /\ ~stale
            THEN [s1 EXCEPT !.tileCache.toLoad = @ \ {tile},
                            !.tileCache.loaded = @ \cup {tile}]
            ELSE s1
      s3 == Callback(s2, "tile", tile, err, stale, data, seenIDs)
      idle == IF stale THEN s3.oldInflight[q.cid] = {}
                       ELSE ~_hasInflightRequests(s3.tileCache)
  IN IF idle THEN emit(s3, "loaded") ELSE s3

\* the callback a loadFromAPI request was given, by the kind of the request:
\* gotTile, gotUsers of userDetails (lines 607-611) followed by gotUser of
\* userChangesets (lines 636-643), gotChangesets (lines 629-633), or the
\* callback of the caller of loadEntity
apiCallback(st, q, err, data, seenIDs) ==
  IF q.kind = "tile" THEN gotTile(st, q, err, data, seenIDs)
  ELSE LET s1 == Callback(st, q.kind, q.key, err, q.cid # st.connectionID, data, seenIDs)
       IN IF err # 0 \/ q.kind = "entity" THEN s1
          ELSE IF q.kind = "details"
          THEN Fetch([s1 EXCEPT !.session.userDetails = TRUE], "changesets", 0, 0)
          ELSE [s1 EXCEPT !.session.userChangesets = TRUE]

\* ------------------------------------------------------------ loadFromAPI
skipSeen(q) == q.kind = "tile"

\* (variant) the loop over `elements` when no entity is ever marked as seen
RECURSIVE ParseElements_NeverSeen(_, _, _, _, _)
ParseElements_NeverSeen(elements, skip, data, seenIDs, seen) ==
  IF elements = <<>> THEN <<data, seenIDs, seen>>
  ELSE LET uid == Head(elements) IN
       IF skip /\ uid \in seen
       THEN ParseElements_NeverSeen(Tail(elements), skip, data, seenIDs \cup {uid}, seen)
       ELSE ParseElements_NeverSeen(Tail(elements), skip, Append(data, uid),
                                    seenIDs \cup {uid}, seen)

\* the loop over `elements` in the idle callback of _parseJSON:
\* <<results.data, results.seenIDs, this._tileCache.seen>> after the elements
RECURSIVE ParseElements(_, _, _, _, _)
ParseElements(elements, skip, data, seenIDs, seen) ==
  IF elements = <<>> THEN <<data, seenIDs, seen>>
  ELSE LET uid == Head(elements) IN
       IF skip /\ uid \in seen
       THEN ParseElements(Tail(elements), skip, data, seenIDs \cup {uid}, seen)
       ELSE ParseElements(Tail(elements), skip, Append(data, uid), seenIDs \cup {uid},
                          IF skip THEN seen \cup {uid} ELSE seen)

Count(seq, e) == Cardinality({i \in DOMAIN seq : seq[i] = e})
Min(a, b) == IF a < b THEN a ELSE b

\* the idle callback of _parseJSON for the deferred parse in slot r
_parseJSON(st, r) ==
  LET q   == st.reqs[r]
      res == ParseElements(q.payload, skipSeen(q), <<>>, {}, st.tileCache.seen)
      s1  == [st EXCEPT !.reqs[r] = NoReq,
                        !.tileCache.seen = res[3],
                        !.delivered = [e \in Entities |->
                            IF skipSeen(q) THEN Min(2, @[e] + Count(res[1], e)) ELSE @[e]]]
  IN apiCallback(s1, q, 0, res[1], res[2])

\* (variant) `done` when it does not compare the connection ids
done_NoConnectionCheck(st, r, status, valid, payload) ==
  LET q == st.reqs[r] IN
  IF st.authed /\ IsAuthError(status)
  THEN Callback([logout(st) EXCEPT !.reqs[r] = [q EXCEPT !.abortable = FALSE, !.oauth = FALSE]],
                "retry", q.key, status, FALSE, <<>>, {})
  ELSE IF status # 200 THEN apiCallback([st EXCEPT !.reqs[r] = NoReq], q, status, <<>>, {})
  ELSE IF ~valid THEN apiCallback([st EXCEPT !.reqs[r] = NoReq], q, -1, <<>>, {})
  ELSE [st EXCEPT !.reqs[r].phase = "idle", !.reqs[r].payload = payload]

\* `done` of loadFromAPI for the fetch in slot r: the response has `status`,
\* a body that is `valid` JSON without error elements or not, and `payload`
done(st, r, status, valid, payload) ==
  LET q == st.reqs[r] IN
  IF st.connectionID # q.cid
  THEN apiCallback([st EXCEPT !.reqs[r] = NoReq], q, -1, <<>>, {})
  ELSE IF st.authed /\ IsAuthError(status)
  THEN \* logout and retry: a new fetch under a controller nobody keeps
       \* (lastCb records the re-issue: no callback runs)
       Callback([logout(st) EXCEPT !.reqs[r] = [q EXCEPT !.abortable = FALSE, !.oauth = FALSE]],
                "retry", q.key, status, FALSE, <<>>, {})
  ELSE LET s1 == IF ~st.authed /\ st.session.rateLimitError = 0 /\ IsRateError(status)
                 THEN throttledReloadApiStatus(
                        emit([st EXCEPT !.session.rateLimitError = status], "authchange"))
                 ELSE IF (status # 200 /\ st.session.cachedApiStatus = "online")
                         \/ (status = 200 /\ st.session.cachedApiStatus # "online")
                 THEN throttledReloadApiStatus(st)
                 ELSE st
       IN IF status # 200 THEN apiCallback([s1 EXCEPT !.reqs[r] = NoReq], q, status, <<>>, {})
          ELSE IF ~valid THEN apiCallback([s1 EXCEPT !.reqs[r] = NoReq], q, -1, <<>>, {})
          ELSE [s1 EXCEPT !.reqs[r].phase = "idle", !.reqs[r].payload = payload]

\* loadFromAPI(path, callback, options): returns the state; the controller it
\* returns is NewController of the state before
loadFromAPI(st, kind, key) == Fetch(st, kind, key, 0)

\* _abortUnwantedRequests(cache, visibleTiles) on the tile cache
RECURSIVE _abortUnwantedRequests(_, _, _)
_abortUnwantedRequests(st, visibleTiles, keys) ==
  IF keys = {} THEN st
  ELSE LET k == CHOOSE x \in keys : \A y \in keys : x <= y
           s1 == IF k \in st.tileCache.toLoad \/ k \in visibleTiles THEN st
                 ELSE [_abortRequest(st, st.tileCache.inflight[k])
                         EXCEPT !.tileCache.inflight[k] = 0]
       IN _abortUnwantedRequests(s1, visibleTiles, keys \ {k})

\* loadTile(tile, callback); `blocked` is what the location system answers
\* for the four corners of the tile
loadTile(st, tile, blocked) ==
  IF st.off THEN st
  ELSE IF tile \in st.tileCache.loaded \/ st.tileCache.inflight[tile] # 0 THEN st
  ELSE IF blocked THEN [st EXCEPT !.tileCache.loaded = @ \cup {tile}]
  ELSE LET s1 == IF ~_hasInflightRequests(st.tileCache) THEN emit(st, "loading") ELSE st
           s2 == loadFromAPI(s1, "tile", tile)
       IN IF s2.overflow THEN s2
          ELSE [s2 EXCEPT !.tileCache.inflight[tile] = NewController(s1)]

RECURSIVE LoadEach(_, _, _)
LoadEach(st, tiles, blocks) ==
  IF tiles = {} THEN st
  ELSE LET t == CHOOSE x \in tiles : \A y \in tiles : x <= y
       IN LoadEach(loadTile(st, t, t \in blocks), tiles \ {t}, blocks)

\* loadTiles(projection, callback); `tiles` are the tiles that cover the view
loadTiles(st, tiles, blocks) ==
  IF st.off THEN st
  ELSE LET hadRequests == _hasInflightRequests(st.tileCache)
           s1 == _abortUnwantedRequests(st, tiles,
                    {t \in Tiles : st.tileCache.inflight[t] # 0})
           s2 == IF hadRequests /\ ~_hasInflightRequests(s1.tileCache)
                 THEN emit(s1, "loaded") ELSE s1
       IN LoadEach(s2, tiles, blocks)

RECURSIVE LoadEachAtLoc(_, _, _)
LoadEachAtLoc(st, tiles, blocks) ==
  IF tiles = {} THEN st
  ELSE LET t == CHOOSE x \in tiles : \A y \in tiles : x <= y
           c == st.tileCache
           s1 == IF t \in c.toLoad \/ t \in c.loaded \/ c.inflight[t] # 0 THEN st
                 ELSE loadTile([st EXCEPT !.tileCache.toLoad = @ \cup {t}],
                               t, t \in blocks)
       IN LoadEachAtLoc(s1, tiles \ {t}, blocks)

\* loadTileAtLoc(loc, callback); `tiles` are the tiles that cover `loc`
loadTileAtLoc(st, tiles, blocks) ==
  IF Cardinality(st.tileCache.toLoad) > MaxToLoad THEN st
  ELSE LoadEachAtLoc(st, tiles, blocks)

\* ----------------------------------------------------------------- reset
RECURSIVE AbortAll(_, _)
AbortAll(st, cs) ==
  IF cs = {} THEN st
  ELSE LET c == CHOOSE x \in cs : TRUE IN AbortAll(_abortRequest(st, c), cs \ {c})

\* resetAsync(), lines 118-141
resetAsync(st) ==
  LET \* cancelIdleCallback for every deferred parse
      s1 == [st EXCEPT !.reqs = [r \in ReqIds |->
                                   IF st.reqs[r].phase = "idle" THEN NoReq ELSE st.reqs[r]]]
      s2 == [s1 EXCEPT !.connectionID = @ + 1, !.session = EmptySession]
      s3 == AbortAll(s2, {s2.tileCache.inflight[t] : t \in Tiles}
                         \cup {s2.noteCache.inflightPost[n] : n \in Notes}
                         \cup {s2.changeset.inflight})
  IN [s3 EXCEPT !.oldInflight[st.connectionID] =
                    {t \in Tiles : st.tileCache.inflight[t] # 0},
                !.tileCache = EmptyTileCache,
                !.noteCache = EmptyNoteCache,
                !.changeset = EmptyChangeset,
                !.delivered = [e \in Entities |-> 0]]

\* switchAsync(newOptions), lines 149-163: the new url and options, then a reset
switchAsync(st) == emit(resetAsync(st), "authchange")

\* ------------------------------------------------------------ changesets
\* The callback the caller gave to a changeset operation.  `send` is 0 for a
\* direct call and the sendChangeset call otherwise; the callbacks of
\* sendChangeset are sendCreated and sendUploaded below.
sendCallback(st, s, err) ==
  [st EXCEPT !.sends[s] = [@ EXCEPT !.phase = IF err = 0 THEN "done" ELSE "failed",
                                    !.calls = Min(2, @ + 1), !.status = err]]

\* uploadChangeset's callers give it the changeset and its callback
RECURSIVE uploadChangeset(_, _, _)
RECURSIVE closeChangeset(_, _, _)

\* (variant) the callback of the upload when it calls back at once as well
sendUploaded_CallbackAtOnce(st, s, id, err) ==
  IF err # 0 THEN sendCallback(st, s, err)
  ELSE LET s1 == [sendCallback(st, s, 0) EXCEPT !.sends[s].phase = "wait"]
       IN IF s1.connectionID = s1.sends[s].cid THEN closeChangeset(s1, id, s) ELSE s1

\* the callback sendChangeset gives to uploadChangeset, lines 520-536
sendUploaded(st, s, id, err) ==
  IF err # 0 THEN sendCallback(st, s, err)
  ELSE LET s1 == [st EXCEPT !.sends[s].phase = "wait"]    \* window.setTimeout(..., 2500)
       IN IF s1.connectionID = s1.sends[s].cid THEN closeChangeset(s1, id, s) ELSE s1

\* the callback sendChangeset gives to createChangeset, lines 516-537
sendCreated(st, s, id, err) ==
  IF err # 0 THEN sendCallback(st, s, err)
  ELSE uploadChangeset([st EXCEPT !.sends[s].phase = "upload"], id, s)

csCallback(st, op, send, id, err) ==
  LET s1 == Callback(st, op, id, err, FALSE, <<>>, {}) IN
  IF send = 0 \/ op = "close" THEN s1
  ELSE IF op = "create" THEN sendCreated(s1, send, id, err)
  ELSE sendUploaded(s1, send, id, err)

\* createdChangeset, lines 381-388
createdChangeset(st, id, send, err, changesetID) ==
  LET s1 == [st EXCEPT !.changeset.inflight = 0] IN
  IF err # 0 THEN csCallback(s1, "create", send, id, err)
  ELSE csCallback([s1 EXCEPT !.changeset.openChangesetID = changesetID],
                  "create", send, changesetID, 0)

\* (variant) createChangeset when it asks for the login first
createChangeset_AuthFirst(st, id, send) ==
  IF ~st.authed THEN csCallback(st, "create", send, id, -3)
  ELSE IF st.changeset.inflight # 0 THEN csCallback(st, "create", send, id, -2)
  ELSE IF st.changeset.openChangesetID # 0
  THEN createdChangeset(st, id, send, 0, st.changeset.openChangesetID)
  ELSE LET s1 == Fetch(st, "create", id, send)
       IN IF s1.overflow THEN s1 ELSE [s1 EXCEPT !.changeset.inflight = NewController(st)]

\* (variant) createChangeset when it does not look for an open changeset
createChangeset_NoReuse(st, id, send) ==
  IF st.changeset.inflight # 0 THEN csCallback(st, "create", send, id, -2)
  ELSE IF ~st.authed THEN csCallback(st, "create", send, id, -3)
  ELSE LET s1 == Fetch(st, "create", id, send)
       IN IF s1.overflow THEN s1 ELSE [s1 EXCEPT !.changeset.inflight = NewController(st)]

\* createChangeset(changeset, callback), lines 374-418; `id` is changeset.id
createChangeset(st, id, send) ==
  IF st.changeset.inflight # 0 THEN csCallback(st, "create", send, id, -2)
  ELSE IF ~st.authed THEN csCallback(st, "create", send, id, -3)
  ELSE IF st.changeset.openChangesetID # 0
  THEN createdChangeset(st, id, send, 0, st.changeset.openChangesetID)
  ELSE LET s1 == Fetch(st, "create", id, send)
       IN IF s1.overflow THEN s1 ELSE [s1 EXCEPT !.changeset.inflight = NewController(st)]

\* uploadedChangeset, lines 433-437
uploadedChangeset(st, id, send, err) ==
  csCallback([st EXCEPT !.changeset.inflight = 0], "upload", send, id, err)

\* uploadChangeset(changeset, changes, callback), lines 423-462
uploadChangeset(st, id, send) ==
  IF st.changeset.inflight # 0 THEN csCallback(st, "upload", send, id, -2)
  ELSE IF ~st.authed THEN csCallback(st, "upload", send, id, -3)
  ELSE IF id # st.changeset.openChangesetID THEN csCallback(st, "upload", send, id, -4)
  ELSE LET s1 == Fetch(st, "upload", id, send)
       IN IF s1.overflow THEN s1 ELSE [s1 EXCEPT !.changeset.inflight = NewController(st)]

\* closedChangeset, lines 477-482
closedChangeset(st, id, send, err) ==
  csCallback([st EXCEPT !.changeset.inflight = 0, !.changeset.openChangesetID = 0],
             "close", send, id, err)

\* closeChangeset(changeset, callback), lines 467-506
closeChangeset(st, id, send) ==
  IF st.changeset.inflight # 0 THEN csCallback(st, "close", send, id, -2)
  ELSE IF ~st.authed THEN csCallback(st, "close", send, id, -3)
  ELSE IF id # st.changeset.openChangesetID THEN csCallback(st, "close", send, id, -4)
  ELSE LET s1 == Fetch(st, "close", id, send)
       IN IF s1.overflow THEN s1 ELSE [s1 EXCEPT !.changeset.inflight = NewController(st)]

\* sendChangeset(changeset, changes, callback), lines 513-538
sendChangeset(st, s, id) ==
  createChangeset([st EXCEPT !.sends[s] = [phase |-> "create", cid |-> st.connectionID,
                                           calls |-> 0, status |-> 0]], id, s)

\* the timer of sendChangeset fires, lines 526-529
sendTimeout(st, s) ==
  sendCallback([st EXCEPT !.changeset.openChangesetID = 0], s, 0)

\* ---------------------------------------------------------------- notes
\* createdNote / updatedNote, lines 884-899 and 945-967, with an error; without
\* one the note is parsed in an idle callback, and the callback runs there
notePosted(st, q, err) ==
  Callback([st EXCEPT !.noteCache.inflightPost[q.key] = 0],
           "npost", q.key, err, FALSE, <<>>, {})

\* postNoteCreate(note, callback), lines 875-920
postNoteCreate(st, note) ==
  IF st.noteCache.inflightPost[note] # 0 THEN Callback(st, "npost", note, -2, FALSE, <<>>, {})
  ELSE IF ~st.authed THEN Callback(st, "npost", note, -3, FALSE, <<>>, {})
  ELSE LET s1 == Fetch(st, "npost", note, 0)
       IN IF s1.overflow THEN s1
          ELSE [s1 EXCEPT !.noteCache.inflightPost[note] = NewController(st)]

\* postNoteUpdate(note, newStatus, callback), lines 927-990
postNoteUpdate(st, note) ==
  IF ~st.authed THEN Callback(st, "npost", note, -3, FALSE, <<>>, {})
  ELSE IF st.noteCache.inflightPost[note] # 0 THEN Callback(st, "npost", note, -2, FALSE, <<>>, {})
  ELSE LET s1 == Fetch(st, "npost", note, 0)
       IN IF s1.overflow THEN s1
          ELSE [s1 EXCEPT !.noteCache.inflightPost[note] = NewController(st)]

\* ---------------------------------------------------------------- status
\* (variant) gotResult when it does not look at the recorded rate-limit error
gotResult_IgnoreRateLimit(st, err, val) ==
  LET status == IF err # 0 THEN "null" ELSE val
      s1 == Callback(st, "status", 0, err, FALSE, <<>>, {})
  IN IF status # s1.session.cachedApiStatus
     THEN emit([s1 EXCEPT !.session.cachedApiStatus = status], "apiStatusChange")
     ELSE s1

\* gotResult of status(), lines 653-689, and the callback reloadApiStatus
\* gives it, lines 704-709; `val` is the api attribute of the capabilities
gotResult(st, err, val) ==
  LET status == IF err # 0 THEN "null"
                ELSE IF st.session.rateLimitError # 0 THEN "rateLimited" ELSE val
      cberr  == IF err = 0 THEN st.session.rateLimitError ELSE err
      s1 == Callback(st, "status", 0, cberr, FALSE, <<>>, {})
  IN IF status # s1.session.cachedApiStatus
     THEN emit([s1 EXCEPT !.session.cachedApiStatus = status], "apiStatusChange")
     ELSE s1

\* reloadApiStatus() -> status(callback), lines 651-698: a fetch without a
\* controller
reloadApiStatus(st) ==
  LET s1 == Fetch([st EXCEPT !.throttled = FALSE], "status", 0, 0)
  IN IF s1.overflow THEN s1 ELSE [s1 EXCEPT !.reqs[NewController(st)].abortable = FALSE]

\* --------------------------------------------------------------- _wrapcb
\* the callback _wrapcb wraps, by the kind of the request
wrapped(st, q, err, result) ==
  IF q.kind = "create" THEN createdChangeset(st, q.key, q.send, err, result)
  ELSE IF q.kind = "upload" THEN uploadedChangeset(st, q.key, q.send, err)
  ELSE IF q.kind = "close" THEN closedChangeset(st, q.key, q.send, err)
  ELSE IF q.kind = "status" THEN gotResult(st, err, result)
  ELSE notePosted(st, q, err)

\* the function _wrapcb returns, lines 1615-1629, called with the response
\* of the fetch in slot r
_wrapcb(st, r, status, result) ==
  LET q == st.reqs[r]
      s0 == [st EXCEPT !.reqs[r] = NoReq]
      stale == st.connectionID # q.cid
      out == IF status # 200
             THEN wrapped(IF IsAuthError(status) THEN logout(s0) ELSE s0, q, status, 0)
             ELSE IF stale THEN wrapped(s0, q, -1, 0)
             ELSE IF q.kind = "npost"
             THEN \* createdNote: the marker goes, _parseXML defers the parse
                  [st EXCEPT !.noteCache.inflightPost[q.key] = 0, !.reqs[r].phase = "idle"]
             ELSE wrapped(s0, q, 0, result)
  IN \* (lastCb: the request of the callback was made in an earlier session)
     IF stale /\ out.lastCb.op # "none" THEN [out EXCEPT !.lastCb.stale = TRUE] ELSE out

\* the promise of a fetch of a changeset or a note settles: `then` calls
\* errback with the result; `catch` clears this._changeset.inflight and calls
\* errback with a FetchError
settled(st, r, status, result) ==
  IF status = 200 THEN _wrapcb(st, r, 200, result)
  ELSE _wrapcb([st EXCEPT !.changeset.inflight = 0], r, status, 0)

\* the catch handler of a fetch of a changeset or a note, given an error that
\* is no FetchError: the AbortError of an aborted fetch, or the TypeError with
\* which fetch() rejects when the network fails
aborted(st, r) == [st EXCEPT !.changeset.inflight = 0, !.reqs[r] = NoReq]

\* the idle callback of _parseXML for the note a POST returned
_parseXML(st, r) ==
  Callback([st EXCEPT !.reqs[r] = NoReq], "npost", st.reqs[r].key, 0,
           st.reqs[r].cid # st.connectionID, <<>>, {})

\* --------------------------------------------------------- authenticate
\* authenticate(callback), lines 1062-1083: this._oauth.authenticate(done) is
\* a pending request without a controller
authenticate(st) ==
  LET s1 == Fetch([st EXCEPT !.session.userChangesets = FALSE,
                             !.session.userDetails = FALSE], "auth", 0, 0)
  IN IF s1.overflow THEN s1 ELSE [s1 EXCEPT !.reqs[NewController(st)].abortable = FALSE]

\* userChangesets(callback), lines 624-646, with userDetails, lines 602-619
userChangesets(st) ==
  IF st.session.userChangesets THEN st
  ELSE IF st.session.userDetails THEN Fetch(st, "changesets", 0, 0)
  ELSE Fetch(st, "details", 0, 0)

\* `done` of authenticate, lines 1067-1080, for the request in slot r; when the
\* login succeeded the library holds the token before it calls `done`
authDone(st, r, ok) ==
  LET q  == st.reqs[r]
      s0 == [st EXCEPT !.reqs[r] = NoReq]
  IN IF ~ok THEN Callback(s0, "auth", 0, 500, q.cid # st.connectionID, <<>>, {})
     ELSE IF st.connectionID # q.cid
     THEN Callback([s0 EXCEPT !.authed = TRUE], "auth", 0, -1, TRUE, <<>>, {})
     ELSE LET s1 == emit([s0 EXCEPT !.authed = TRUE, !.session.rateLimitError = 0],
                         "authchange")
              s2 == Callback(s1, "auth", 0, 0, FALSE, <<>>, {})
          IN userChangesets(s2)

\* --------------------------------------------------------------- actions
CreateChangeset == \E id \in CallerIDs : Commit(createChangeset(Call, id, 0))

UploadChangeset == \E id \in CallerIDs : Commit(uploadChangeset(Call, id, 0))

CloseChangeset == \E id \in CallerIDs : Commit(closeChangeset(Call, id, 0))

SendChangeset ==
  \E s \in SendIds :
    /\ sends[s].phase \in {"idle", "done", "failed"}
    /\ Commit(sendChangeset(Call, s, LocalID))

SendTimeout ==
  \E s \in SendIds :
    /\ sends[s].phase = "wait"
    /\ Commit(sendTimeout(St, s))

PostNoteCreate == \E note \in Notes : Commit(postNoteCreate(Call, note))

PostNoteUpdate == \E note \in Notes : Commit(postNoteUpdate(Call, note))

\* the fetch of a changeset, note or status request settles
Settle ==
  \E r \in ReqIds, status \in {200, 401, 500}, result \in ChangesetIDs :
    /\ reqs[r].kind \in {"create", "upload", "close", "npost"}
    /\ reqs[r].phase = "net"
    /\ (reqs[r].kind # "create" \/ status # 200) => result = 1
    /\ Commit(settled(St, r, status, result))

\* the catch handler of an aborted fetch runs
AbortCatch ==
  \E r \in ReqIds :
    /\ reqs[r].phase = "aborted"
    /\ Commit(aborted(St, r))

\* the network fails: the fetch of a changeset or note request rejects with an
\* error that is neither an AbortError nor a FetchError
NetworkError ==
  \E r \in ReqIds :
    /\ reqs[r].kind \in {"create", "upload", "close", "npost"}
    /\ reqs[r].phase = "net"
    /\ Commit(aborted(St, r))

\* the capabilities arrive
StatusSettle ==
  \E r \in ReqIds, status \in {200, 500}, val \in {"online", "offline"} :
    /\ reqs[r].kind = "status"
    /\ reqs[r].phase = "net"
    /\ Commit(_wrapcb(St, r, status, val))

ReloadApiStatus == throttled /\ Commit(reloadApiStatus(St))

Authenticate == Commit(authenticate(Call))

AuthDone ==
  \E r \in ReqIds, ok \in BOOLEAN :
    /\ reqs[r].kind = "auth"
    /\ Commit(authDone(St, r, ok))

LoadTiles ==
  \E tiles \in SUBSET Tiles : Commit(loadTiles(Call, tiles, blockedTiles))

LoadTile ==
  \E tile \in Tiles : Commit(loadTile(Call, tile, tile \in blockedTiles))

LoadTileAtLoc ==
  \E tile \in Tiles : Commit(loadTileAtLoc(Call, {tile}, blockedTiles))

LoadEntity == Commit(loadFromAPI(St, "entity", 0))

Toggle == \E val \in BOOLEAN : Commit([St EXCEPT !.off = ~val])

ResetAsync == connectionID < MaxConn /\ Commit(resetAsync(St))

SwitchAsync == connectionID < MaxConn /\ Commit(switchAsync(St))

Payloads == UNION {[1..n -> Entities] : n \in 0..MaxPayload}

\* a response arrives for a fetch made by loadFromAPI: its status is one of
\* `statuses`, its elements are one of `payloads`
RespondWith(statuses, payloads) ==
  \E r \in ReqIds, status \in statuses, valid \in BOOLEAN, payload \in payloads :
    /\ reqs[r].kind \in {"tile", "entity", "details", "changesets"}
    /\ reqs[r].phase = "net"
    /\ (status # 200 \/ ~valid) => payload = <<>>
    /\ Commit(done(St, r, status, valid, payload))

Respond == RespondWith(Statuses, Payloads)

\* the responses of a server that sends no elements and limits no rate
RespondPlain == RespondWith({200, 401, 500}, {<<>>})

\* the responses of a server that limits the rate
RespondRate == RespondWith({200, 429, 509}, {<<>>})

\* the responses of a server that sends elements
RespondElements == RespondWith({200, 500}, Payloads)

\* the browser is idle: a deferred parse runs
Idle ==
  \E r \in ReqIds :
    /\ reqs[r].phase = "idle"
    /\ Commit(IF reqs[r].kind = "npost" THEN _parseXML(St, r) ELSE _parseJSON(St, r))

\* this._oauth.logout() by the user, and the end of a successful login
Logout == authed /\ Commit(logout(St))

\* ---------------------------------------------------------- PixiRenderer
\* The numbers of the code are IEEE doubles.  The model keeps their rounding
\* with a mantissa of Mantissa bits: fl(v) is the number of that format
\* nearest to the integer v, ties to the even mantissa.
RECURSIVE Ulp(_, _)
Ulp(a, u) == IF a < (2 ^ Mantissa) * u THEN u ELSE Ulp(a, 2 * u)

fl(v) ==
  LET a == IF v < 0 THEN -v ELSE v
      u == Ulp(a, 1)
      q == a \div u
      r == a % u
      m == IF 2 * r < u THEN q
           ELSE IF 2 * r > u THEN q + 1
           ELSE IF q % 2 = 0 THEN q ELSE q + 1
  IN IF v < 0 THEN -(m * u) ELSE m * u

\* the transforms a caller can ask for: even numbers of the format, so that
\* half of a difference is a number of the format too
Xforms == {x \in 0..MaxX : x % 2 = 0 /\ fl(x) = x}

\* the durations a caller can ask for: none, or two ticks
Durations == {0, 2 * TickMS}

\* the time between two ticks
Deltas == {TickMS, 2 * TickMS}

MaxNow == MaxTicks * TickMS

Promises == 1..MaxEases

\* the renderer's fields as a record, for the methods below
Rd == [frame |-> frame, timeToNextRender |-> timeToNextRender,
       appPending |-> appPending, drawPending |-> drawPending,
       texturesLoaded |-> texturesLoaded, transformEase |-> transformEase,
       projection |-> projection, transformDraw |-> transformDraw,
       isTransformed |-> isTransformed, now |-> now, promises |-> promises,
       passes |-> <<>>]

\* the step of the renderer to the state `rd`
CommitRenderer(rd) ==
  /\ frame' = rd.frame
  /\ timeToNextRender' = rd.timeToNextRender
  /\ appPending' = rd.appPending
  /\ drawPending' = rd.drawPending
  /\ texturesLoaded' = rd.texturesLoaded
  /\ transformEase' = rd.transformEase
  /\ projection' = rd.projection
  /\ transformDraw' = rd.transformDraw
  /\ isTransformed' = rd.isTransformed
  /\ now' = rd.now
  /\ promises' = rd.promises
  /\ passes' = rd.passes
  /\ UNCHANGED ovars

\* resolve(value) of the promise p
Resolve(rd, p, value) ==
  [rd EXCEPT !.promises[p] = [state |-> "resolved", value |-> value]]

\* _draw(), lines 476-500
_draw(rd) ==
  [rd EXCEPT !.transformDraw = <<rd.projection>>,
             !.timeToNextRender = THROTTLE,
             !.isTransformed = FALSE,
             !.drawPending = FALSE,
             !.frame = @ + 1,
             !.passes = Append(@, "DRAW")]

\* _app(), lines 408-468: the scene graph itself is not modelled
_app(rd) ==
  IF ~rd.texturesLoaded THEN rd
  ELSE [rd EXCEPT !.appPending = FALSE, !.drawPending = TRUE,
                  !.passes = Append(@, "APP")]

\* x0 + ((x1 - x0) * tween), where tween = elapsed / duration, clamped to 0..1
Interpolate(x0, x1, elapsed, duration) ==
  LET d == fl(x1 - x0)
      part == IF elapsed >= duration THEN d
              ELSE IF elapsed <= 0 THEN 0
              ELSE fl((d * elapsed) \div duration)
  IN fl(x0 + part)

\* _tform(), lines 357-398
_tform(rd) ==
  IF rd.drawPending THEN rd
  ELSE LET r1 == IF rd.transformEase = <<>> THEN rd
                 ELSE LET e == rd.transformEase[1]
                          tNow == Interpolate(e.xform0, e.xform1,
                                              rd.now - e.time0, e.time1 - e.time0)
                          r0 == [rd EXCEPT !.projection = tNow, !.appPending = TRUE]
                      IN IF rd.now - e.time0 >= e.time1 - e.time0    \* tween === 1
                         THEN [Resolve(r0, e.promise, tNow) EXCEPT !.transformEase = <<>>]
                         ELSE r0
       IN IF r1.transformDraw = <<>> THEN r1
          ELSE IF r1.isTransformed \/ r1.transformDraw[1] # r1.projection
          THEN [r1 EXCEPT !.isTransformed = TRUE]
          ELSE r1

\* (variant) _tick when it looks for a pending APP before a pending DRAW
_tick_AppFirst(rd, deltaMS) ==
  LET r1 == _tform(rd) IN
  IF r1.appPending
  THEN LET left == r1.timeToNextRender - deltaMS
           r2 == [r1 EXCEPT !.timeToNextRender = IF left < 0 THEN -1 ELSE left]
       IN IF left >= 0 THEN r2 ELSE _app(r2)
  ELSE IF r1.drawPending THEN _draw(r1)
  ELSE r1

\* _tick(), lines 218-275, deltaMS after the tick before
_tick(rd, deltaMS) ==
  IF rd.drawPending THEN _draw(rd)
  ELSE LET r1 == _tform(rd) IN
       IF ~r1.appPending THEN r1
       ELSE LET left == r1.timeToNextRender - deltaMS
                r2 == [r1 EXCEPT !.timeToNextRender = IF left < 0 THEN -1 ELSE left]
            IN IF left >= 0 THEN r2 ELSE _app(r2)

\* deferredRender(), lines 282-284
deferredRender(rd) == [rd EXCEPT !.appPending = TRUE]

\* render(), lines 290-293
render(rd) == [rd EXCEPT !.timeToNextRender = 0, !.appPending = TRUE]

\* resize(width, height), lines 343-346
resize(rd) == [rd EXCEPT !.appPending = TRUE]

\* setTransformAsync(t, duration), lines 302-334; p is the promise it returns
setTransformAsync(rd, t, duration, p) ==
  LET tCurr == rd.projection
      r1 == IF rd.transformEase = <<>> THEN rd
            ELSE [Resolve(rd, rd.transformEase[1].promise, tCurr)
                    EXCEPT !.transformEase = <<>>]
      r2 == IF duration > 0
            THEN [r1 EXCEPT !.promises[p] = [state |-> "pending", value |-> 0],
                            !.transformEase =
                               <<[time0 |-> rd.now, time1 |-> rd.now + duration,
                                  xform0 |-> tCurr, xform1 |-> t, promise |-> p]>>]
            ELSE [Resolve(r1, p, t) EXCEPT !.projection = t]
  IN [r2 EXCEPT !.appPending = TRUE]

\* the ticker calls _tick; the clock has advanced by deltaMS
Tick ==
  \E deltaMS \in Deltas :
    /\ now + deltaMS <= MaxNow
    /\ frame < MaxFrame
    /\ CommitRenderer(_tick([Rd EXCEPT !.now = @ + deltaMS], deltaMS))

Render == CommitRenderer(render(Rd))

DeferredRender == CommitRenderer(deferredRender(Rd))

Resize == CommitRenderer(resize(Rd))

SetTransformAsync ==
  \E t \in Xforms, duration \in Durations, p \in Promises :
    /\ promises[p].state = "none"
    /\ \A q \in Promises : q < p => promises[q].state # "none"
    /\ CommitRenderer(setTransformAsync(Rd, t, duration, p))

\* the textures have been loaded
TexturesLoaded == ~texturesLoaded /\ CommitRenderer([Rd EXCEPT !.texturesLoaded = TRUE])

\* -------------------------------------------------------- specifications
\* the render loop
NextRenderer ==
  \/ Tick
  \/ Render
  \/ DeferredRender
  \/ Resize
  \/ SetTransformAsync
  \/ TexturesLoaded

InitPixi == Init /\ ~authed

SpecRenderer == InitPixi /\ [][NextRenderer]_vars

\* Tick can be taken: the clock and the frame counter have room
TickEnabled == now + TickMS <= MaxNow /\ frame < MaxFrame

\* the same, where the ticker keeps calling _tick: WF_vars(Tick), written out
\* with the enabling condition of Tick
SpecTicking == SpecRenderer /\ ([]<>(~TickEnabled) \/ []<><<Tick>>_vars)

\* the tile cache, with a server that sends no elements
NextTiles ==
  \/ LoadTiles
  \/ LoadTile
  \/ LoadTileAtLoc
  \/ Toggle
  \/ ResetAsync
  \/ SwitchAsync
  \/ RespondPlain
  \/ Idle
  \/ Logout

SpecTiles == InitTiles /\ [][NextTiles]_vars

\* tile loads of a user whose token the server rejects
NextRetry ==
  \/ LoadTiles
  \/ LoadTile
  \/ RespondPlain
  \/ Idle

SpecRetry == InitTiles /\ [][NextRetry]_vars

\* the parsing of the elements of tile and entity responses
NextParse ==
  \/ LoadTiles
  \/ LoadTile
  \/ LoadEntity
  \/ ResetAsync
  \/ RespondElements
  \/ Idle

SpecParse == Init /\ [][NextParse]_vars

\* requests of every kind across a change of the connection
NextConn ==
  \/ LoadEntity
  \/ CreateChangeset
  \/ PostNoteCreate
  \/ Authenticate
  \/ AuthDone
  \/ ReloadApiStatus
  \/ StatusSettle
  \/ RespondPlain
  \/ Settle
  \/ Idle
  \/ AbortCatch
  \/ ResetAsync
  \/ SwitchAsync

SpecConn == Init /\ [][NextConn]_vars

\* the rate limit: unauthenticated loads, the capabilities, the login
NextRate ==
  \/ LoadEntity
  \/ RespondRate
  \/ Idle
  \/ ReloadApiStatus
  \/ StatusSettle
  \/ Authenticate
  \/ AuthDone
  \/ Logout
  \/ ResetAsync

SpecRate == Init /\ [][NextRate]_vars

\* the note POSTs, over a network that can fail
NextNotes ==
  \/ PostNoteCreate
  \/ PostNoteUpdate
  \/ Settle
  \/ NetworkError
  \/ Idle
  \/ Logout
  \/ Authenticate
  \/ AuthDone
  \/ ResetAsync
  \/ AbortCatch

SpecNotes == Init /\ [][NextNotes]_vars

\* the changeset life cycle and the note POSTs within one session
NextChangeset ==
  \/ CreateChangeset
  \/ UploadChangeset
  \/ CloseChangeset
  \/ SendChangeset
  \/ SendTimeout
  \/ PostNoteCreate
  \/ PostNoteUpdate
  \/ Settle
  \/ Idle
  \/ Logout

SpecChangeset == Init /\ [][NextChangeset]_vars

\* the same across sessions: resetAsync, and the catch handlers of the
\* fetches it aborts
NextSession ==
  \/ NextChangeset
  \/ ResetAsync
  \/ AbortCatch

SpecSession == Init /\ [][NextSession]_vars

\* ------------------------------------------------------------------ C1
Outstanding(t) ==
  {r \in ReqIds : /\ reqs[r].kind = "tile" /\ reqs[r].key = t
                  /\ reqs[r].phase = "net" /\ reqs[r].cid = connectionID}

\* C1: tile requests are deduplicated: in every state at most one fetch of
\* the current session is waiting for the response for any tile id.
C1_Deduplicated == \A t \in Tiles : Cardinality(Outstanding(t)) <= 1

\* ------------------------------------------------------------------ C4
\* a fetch for tile t is issued by the step: a slot is taken for it, or the
\* fetch in a slot is re-issued
IssuedFor(t) ==
  \/ \E r \in ReqIds : /\ reqs[r].kind = "none"
                       /\ reqs'[r].kind = "tile" /\ reqs'[r].key = t
  \/ lastCb'.op = "retry" /\ lastCb'.key = t

\* C4 (first part): within a session a tile becomes loaded only in the step in
\* which gotTile is given its result without an error, or in a step that
\* issues no request for it (loadTile found its corners blocked).
C4_LoadedOnlyOnSuccess ==
  [][\A t \in Tiles :
       (connectionID' = connectionID /\ t \notin tileCache.loaded /\ t \in tileCache'.loaded)
       => \/ lastCb'.op = "tile" /\ lastCb'.key = t /\ lastCb'.status = 0 /\ ~lastCb'.stale
          \/ lastCb'.op = "none" /\ tileCache'.inflight[t] = 0 /\ ~IssuedFor(t)]_vars

\* C4 (second part): when gotTile is given an error for a request of the
\* current session, the tile is afterwards neither loaded nor in flight.
C4_FailedNotLoaded ==
  (lastCb.op = "tile" /\ lastCb.status # 0 /\ ~lastCb.stale)
  => (lastCb.key \notin tileCache.loaded /\ tileCache.inflight[lastCb.key] = 0)

\* C4 (third part): no request is issued for a tile that is marked loaded.
C4_NoRequestOnceLoaded ==
  [][\A t \in Tiles :
       (connectionID' = connectionID /\ t \in tileCache.loaded) => ~IssuedFor(t)]_vars

\* ------------------------------------------------------------------ C2
Changesets == {"create", "upload", "close"}

\* the changeset requests that wait for their response
InflightChangesets ==
  {r \in ReqIds : reqs[r].kind \in Changesets /\ reqs[r].phase = "net"}

isChangesetInflight == changeset.inflight # 0

\* C2: at most one changeset request is in flight, and while one is in flight
\* isChangesetInflight() is true.
C2_OneChangesetInflight ==
  /\ Cardinality(InflightChangesets) <= 1
  /\ InflightChangesets # {} => isChangesetInflight

\* ------------------------------------------------------------------ C7
Rejections == {-2, -3, -4}

\* what a call of the changeset operation `op` with changeset.id = id does
\* when it validates before sending
Validated(op, id) ==
  LET rejected(status) == /\ lastCb'.op = op /\ lastCb'.status = status /\ lastCb'.sync
                          /\ reqs' = reqs
                          /\ changeset' = changeset
  IN IF isChangesetInflight THEN rejected(-2)
     ELSE IF ~authed THEN rejected(-3)
     ELSE IF op # "create" /\ id # changeset.openChangesetID THEN rejected(-4)
     ELSE ~(lastCb'.op = op /\ lastCb'.status \in Rejections)

CreateIssued == \E r \in ReqIds : reqs[r].kind = "none" /\ reqs'[r].kind = "create"

IssuedBy(s, kind) ==
  \E r \in ReqIds : /\ reqs[r].kind = "none"
                    /\ reqs'[r].kind = kind /\ reqs'[r].send = s

\* C9: sendChangeset issues the upload only in the step in which the create
\* step succeeded, the close only in the step in which the upload succeeded
\* and under the connection ID it started with; its callback runs at most
\* once, with the error of the failing step, or without error when the
\* timer set after the successful upload fires.
C9_SendChain ==
  [][\A s \in SendIds :
       /\ IssuedBy(s, "upload") => (lastCb'.op = "create" /\ lastCb'.status = 0)
       /\ IssuedBy(s, "close")
            => (/\ lastCb'.op = "upload" /\ lastCb'.status = 0
                /\ connectionID' = sends'[s].cid)
       /\ sends'[s].calls <= 1
       /\ (sends[s].calls = 0 /\ sends'[s].calls = 1)
            => IF sends'[s].status = 0
               THEN sends[s].phase = "wait" /\ lastCb'.op = "none"
               ELSE /\ lastCb'.op \in {"create", "upload"}
                    /\ lastCb'.status = sends'[s].status]_vars

\* C9 witness: the callback ran without error while the close was still
\* waiting for its response.
C9_Witness ==
  \E s \in SendIds :
    /\ sends[s].phase = "done" /\ sends[s].calls = 1 /\ sends[s].status = 0
    /\ \E r \in ReqIds : reqs[r].kind = "close" /\ reqs[r].send = s /\ reqs[r].phase = "net"

\* ------------------------------------------------------------------ C3
Range(seq) == {seq[i] : i \in DOMAIN seq}

\* the step is the deferred parse of the response in slot r of a tile load
ParsedTile(r) ==
  /\ reqs[r].kind = "tile" /\ reqs[r].phase = "idle"
  /\ reqs'[r].kind = "none"
  /\ lastCb'.op = "tile" /\ lastCb'.status = 0

\* C3: with skipSeen, within a session every entity is delivered in
\* results.data by at most one response; a response that contains an entity
\* seen before delivers no copy of it and reports its id in seenIDs.
C3_IdempotentRefetch ==
  [][/\ \A e \in Entities : delivered'[e] <= 1
     /\ \A r \in ReqIds : ParsedTile(r) =>
          /\ lastCb'.seenIDs = Range(reqs[r].payload)
          /\ \A e \in Range(reqs[r].payload) :
               IF e \in tileCache.seen
               THEN Count(lastCb'.data, e) = 0
               ELSE Count(lastCb'.data, e) <= 1]_vars

\* C3 witness: a tile response reported an entity in seenIDs that it did not
\* deliver, because an earlier response had delivered it.
C3_Witness ==
  /\ lastCb.op = "tile" /\ lastCb.status = 0
  /\ \E e \in lastCb.seenIDs : Count(lastCb.data, e) = 0 /\ delivered[e] = 1

\* ------------------------------------------------------------------ C5
\* the step is the arrival of a successful response to the request in slot r
Succeeded(r) ==
  /\ reqs[r].phase = "net"
  /\ \/ /\ reqs[r].kind \in {"tile", "entity", "details", "changesets"}
        /\ Commit(done(St, r, 200, TRUE, <<>>))
     \/ /\ reqs[r].kind \in {"create", "upload", "close", "npost"}
        /\ \E result \in ChangesetIDs : Commit(settled(St, r, 200, result))
     \/ /\ reqs[r].kind = "status"
        /\ \E val \in {"online", "offline"} : Commit(_wrapcb(St, r, 200, val))
     \/ /\ reqs[r].kind = "auth"
        /\ Commit(authDone(St, r, TRUE))

\* C5: a successful response to a request made under another connection id
\* than the current one is given to no callback as a success: the callback
\* gets the error of status -1 or does not run; and no callback at all is
\* given a success for a request of an earlier connection.
C5_NoStaleSuccess ==
  [][/\ \A r \in ReqIds :
          (reqs[r].cid # connectionID /\ Succeeded(r)) =>
             \/ lastCb'.op = "none"
             \/ lastCb'.status = -1 /\ lastCb'.stale
     /\ (lastCb'.op # "none" /\ lastCb'.stale) => lastCb'.status # 0]_vars

\* C5 witness: the callback of a request of an earlier connection was given
\* the error of status -1.
C5_Witness == lastCb.op \in {"entity", "create", "npost", "status", "auth"}
              /\ lastCb.stale /\ lastCb.status = -1

\* ------------------------------------------------------------------ C6
\* the step is the run of a callback or an error handler of the request in
\* slot r, made before the last reset
StaleHandler(r) ==
  /\ reqs[r].kind # "none" /\ reqs[r].cid # connectionID
  /\ reqs'[r] # reqs[r]
  /\ connectionID' = connectionID

\* C6: no callback and no error handler of a request made before a reset
\* changes the caches or the changeset state of the session after it: no
\* tile becomes loaded, no entity seen, and no in-flight marker is removed.
C6_NoStaleEffect ==
  [][\A r \in ReqIds :
       StaleHandler(r) => /\ tileCache' = tileCache
                          /\ noteCache' = noteCache
                          /\ changeset' = changeset]_vars

\* ----------------------------------------------------------------- C10
\* the step is the arrival of a response of status 400, 401 or 403 for the
\* tile request in slot r of the current session
AuthFailed(r, status) ==
  /\ reqs[r].kind = "tile" /\ reqs[r].phase = "net" /\ reqs[r].cid = connectionID
  /\ IsAuthError(status)
  /\ Commit(done(St, r, status, TRUE, <<>>))

\* C10: when a request made with the login fails with 400, 401 or 403, the
\* service is logged out afterwards and the request is issued again without
\* the login, and no callback runs; when a request made without the login
\* fails so while the user is logged out, its callback gets the error and
\* the request is not issued again.
C10_LogoutAndRetry ==
  [][\A r \in ReqIds, status \in Statuses :
       AuthFailed(r, status) =>
         IF reqs[r].oauth
         THEN /\ ~authed'
              /\ lastCb'.op = "retry" /\ lastCb'.key = reqs[r].key
              /\ reqs'[r] = [reqs[r] EXCEPT !.abortable = FALSE, !.oauth = FALSE]
         ELSE ~authed => /\ lastCb'.op = "tile" /\ lastCb'.status = status
                         /\ reqs'[r] = NoReq]_vars
\* ----------------------------------------------------------------- C11
\* the step is the arrival of a response of status 429 or 509 for the
\* loadFromAPI request in slot r of the current connection
RateLimited(r, status) ==
  /\ reqs[r].kind \in {"tile", "entity", "details", "changesets"}
  /\ reqs[r].phase = "net" /\ reqs[r].cid = connectionID
  /\ IsRateError(status)
  /\ Commit(done(St, r, status, TRUE, <<>>))

\* the step is the arrival of the capabilities for the status request in slot r
GotCapabilities(r) ==
  /\ reqs[r].kind = "status" /\ reqs[r].phase = "net" /\ reqs[r].cid = connectionID
  /\ \E val \in {"online", "offline"} : Commit(_wrapcb(St, r, 200, val))

SpinnerEvents(evs) == SelectSeq(evs, LAMBDA ev : ev \in {"loading", "loaded"})

\* C12 (the state): whenever the tile cache holds no in-flight request, the
\* last of the events 'loading' and 'loaded' that was emitted is not 'loading'.
C12_LoadedWhenIdle == ~_hasInflightRequests(tileCache) => spinner # "loading"

\* C12 (the order): the events 'loading' and 'loaded' alternate, and the first
\* one is 'loading'.
C12_Alternate ==
  [][LET evs == SpinnerEvents(emitted') IN
     \A i \in DOMAIN evs :
        LET before == IF i = 1 THEN spinner ELSE evs[i - 1]
        IN IF evs[i] = "loading" THEN before # "loading" ELSE before = "loading"]_vars
\* ----------------------------------------------------------------- C13
\* the POSTs for note n that wait for their response
InflightPosts(n) ==
  {r \in ReqIds : /\ reqs[r].kind = "npost" /\ reqs[r].key = n
                  /\ reqs[r].phase = "net" /\ reqs[r].cid = connectionID}

\* C13 (first part): at most one POST per note waits for its response, and a
\* postNoteCreate or postNoteUpdate call made while the marker of the note is
\* set issues no request.
C13_OnePostPerNote ==
  [][\A n \in Notes :
       /\ Cardinality(InflightPosts(n)) <= 1
       /\ (noteCache.inflightPost[n] # 0 /\ connectionID' = connectionID)
            => InflightPosts(n)' \subseteq InflightPosts(n)]_vars

\* C13 (second part): the marker of a note is set only while a POST for the
\* note waits for its response or for the parse of its response: it is
\* removed when the POST completes or fails.
C13_MarkerRemoved ==
  \A n \in Notes : noteCache.inflightPost[n] # 0 => InflightPosts(n) # {}
\* ----------------------------------------------------------------- C14
\* C14: a tick runs at most one of the passes APP and DRAW; a tick that finds
\* a DRAW pending runs the DRAW; an APP runs only when no DRAW is pending and
\* leaves one pending, and only a DRAW clears it, so that APP and DRAW
\* alternate; and the frame counter grows by one in a DRAW and in no other
\* step.
C14_RenderLoop ==
  [][/\ Len(passes') <= 1
     /\ (drawPending /\ now' # now) => passes' = <<"DRAW">>
     /\ passes' = <<"APP">> => (~drawPending /\ drawPending')
     /\ passes' = <<"DRAW">> => (drawPending /\ ~drawPending')
     /\ drawPending' # drawPending => passes' # <<>>
     /\ frame' = IF passes' = <<"DRAW">> THEN frame + 1 ELSE frame]_vars

\* C14 witness: the second DRAW has run, while the next APP was already asked for.
C14_Witness == passes = <<"DRAW">> /\ frame = 2 /\ appPending
\* ----------------------------------------------------------------- C15
Pending == {p \in Promises : promises[p].state = "pending"}

\* the step is a tick in which the ease reaches its end time
EaseEnds == transformEase # <<>> /\ transformEase' = <<>> /\ now' # now

\* C15 (the target): when an ease ends at its end time, its promise is
\* resolved and the projection transform is the requested target transform.
C15_EaseReachesTarget ==
  [][EaseEnds => /\ promises'[transformEase[1].promise].state = "resolved"
                 /\ projection' = transformEase[1].xform1]_vars

\* C15 (one ease): the only promise that is not resolved is that of the ease
\* in progress, so at most one ease is active and a superseded ease was
\* resolved; and a call with duration 0 leaves no ease and no pending promise.
C15_OneEase ==
  /\ Pending = {transformEase[i].promise : i \in DOMAIN transformEase}
  /\ Cardinality(Pending) <= 1

\* C15 (the resolution): while ticks keep occurring, a pending promise is
\* resolved; the model follows it until its clock or its frame counter stops.
C15_EventuallyResolved ==
  \A p \in Promises :
    (promises[p].state = "pending")
      ~> (promises[p].state = "resolved" \/ now + TickMS > MaxNow \/ frame = MaxFrame)
====
